---- MODULE Spec2Model ----
(***************************************************************************)
(* State-machine model of the trivia quiz client in src/script.js.         *)
(*                                                                         *)
(* The page is a set of module-level variables, a handful of DOM nodes,    *)
(* one localStorage key, and callbacks run to completion by the browser's  *)
(* event loop: the start and restart clicks, the answer clicks, the        *)
(* continuations of the two fetches, and the 3000 ms feedback timer.       *)
(* Each callback is one action.                                            *)
(*                                                                         *)
(* Text is modelled as a sequence of tokens [ch, d]: the character (or     *)
(* chunk of plain characters) ch written with d levels of HTML entity      *)
(* encoding.  [ch |-> "&", d |-> 0] is "&", d = 1 is "&amp;", d = 2 is     *)
(* "&amp;amp;"; [ch |-> "'", d |-> 1] is "&#039;".                         *)
(***************************************************************************)
EXTENDS Integers, Sequences, FiniteSets

VARIABLES
    currentQuestions,     \* let currentQuestions (an array, or undefined)
    score,                \* let score
    questionIndex,        \* let questionIndex
    highScore,            \* let highScore
    questionStartTime,    \* let questionStartTime (ms)
    localStorage,         \* the 'HighScoreTrivia' entry
    questionContainer,    \* text of #question
    answersContainer,     \* children of #answers
    resultContainer,      \* text of #result
    progressContainer,    \* text of #progress
    currentScoreDisplay,  \* number shown in #currentScore
    highScoreDisplay,     \* number shown in #highScore
    gameSetupDiv,         \* style.display of #game-setup
    quizDiv,              \* style.display of #quiz
    categorySelect,       \* <option> children of #category added by the script
    now,                  \* Date.now()
    timers,               \* due times of the pending setTimeout callbacks
    questionFetches,      \* question requests in flight
    categoryFetches,      \* category requests in flight
    alert,                \* text of the alert raised by the last callback
    session,              \* history: what happened since the last question load
    shown,                \* history: the question whose buttons are on screen
    last,                 \* history: the last answer submission
    started               \* history: start clicks so far

vars == <<currentQuestions, score, questionIndex, highScore, questionStartTime,
          localStorage, questionContainer, answersContainer, resultContainer,
          progressContainer, currentScoreDisplay, highScoreDisplay, gameSetupDiv,
          quizDiv, categorySelect, now, timers, questionFetches, categoryFetches,
          alert, session, shown, last, started>>

----------------------------------------------------------------------------
(* Bounds of the model *)

MaxQuestions == 2        \* longest question list a response carries
MaxFetches == 2          \* requests of one kind in flight
MaxTimers == 2           \* feedback timers pending
MaxStarts == 3           \* start clicks in a run
MaxOptions == 4          \* <option> elements in the category selector

(* Program constants *)

baseScorePerQuestion == 1000
penaltyPerSecond == 10
FeedbackDelay == 3000

\* The values Date.now() takes in the model (ms).  Their differences include
\* 2300 (2.3 s), 97700, 100000 (100 s) and 150000 (150 s).
Instants == {0, 2300, 100000, 250000}

Max(a, b) == IF a >= b THEN a ELSE b
Min(S) == CHOOSE x \in S : \A y \in S : x <= y

----------------------------------------------------------------------------
(* Text *)

Lit(c) == <<[ch |-> c, d |-> 0]>>
Ent(c, n) == <<[ch |-> c, d |-> n]>>

\* Characters the HTML serializer escapes in a text node.
Escaped == {"&", "<", ">"}

\* decodeHTML: the text of a <textarea> whose innerHTML is html, i.e. html
\* with one level of character references resolved.
decodeHTML(html) ==
    [i \in DOMAIN html |->
        IF html[i].d > 0 THEN [html[i] EXCEPT !.d = @ - 1] ELSE html[i]]

\* element.innerHTML = markup: the text content the parser builds.  Character
\* references are resolved once more (the alphabet has no tag-opening "<").
ParseHTML(markup) ==
    [i \in DOMAIN markup |->
        IF markup[i].d > 0 THEN [markup[i] EXCEPT !.d = @ - 1] ELSE markup[i]]

\* Reading element.innerHTML of a text node: "&", "<", ">" are escaped.
SerializeHTML(text) ==
    [i \in DOMAIN text |->
        IF text[i].d > 0 \/ text[i].ch \in Escaped
        THEN [text[i] EXCEPT !.d = @ + 1] ELSE text[i]]

\* Number.prototype.toString and parseInt on decimal digit strings.
RECURSIVE NumberToString(_)
NumberToString(n) ==
    IF n < 10 THEN <<n>> ELSE Append(NumberToString(n \div 10), n % 10)

RECURSIVE ParseDigits(_, _)
ParseDigits(str, acc) ==
    IF str = <<>> THEN acc ELSE ParseDigits(Tail(str), 10 * acc + Head(str))

\* parseInt(localStorage.getItem(key)) || 0: NaN for a missing key or an
\* empty string, and NaN || 0 is 0.
NoItem == [present |-> FALSE, value |-> <<>>]
Item(str) == [present |-> TRUE, value |-> str]
ParseIntOrZero(item) ==
    IF ~item.present \/ item.value = <<>> THEN 0 ELSE ParseDigits(item.value, 0)

----------------------------------------------------------------------------
(* What the remote API returns *)

PlainQuestion ==
    [question |-> Lit("2+2=?"),
     correct_answer |-> Lit("4"),
     incorrect_answers |-> <<Lit("Don") \o Ent("'", 1) \o Lit("t know")>>]

AmpQuestion ==
    [question |-> Lit("Cat ") \o Ent("&", 1) \o Lit(" mouse?"),
     correct_answer |-> Lit("Tom ") \o Ent("&", 1) \o Lit(" Jerry"),
     incorrect_answers |-> <<Lit("Itchy")>>]

\* An answer whose own text is an entity: "&amp;" is sent as "&amp;amp;".
EntityQuestion ==
    [question |-> Lit("Which entity is an ampersand?"),
     correct_answer |-> Ent("&", 2),
     incorrect_answers |-> <<Ent("<", 2)>>]

Pool == <<PlainQuestion, AmpQuestion, EntityQuestion>>

\* data.results: up to MaxQuestions consecutive questions of the pool.
QuestionLists ==
    { [i \in 1..k |-> Pool[((s + i - 2) % Len(Pool)) + 1]] :
        s \in 1..Len(Pool), k \in 0..MaxQuestions }

Array(list) == [defined |-> TRUE, items |-> list]
Undefined == [defined |-> FALSE, items |-> <<>>]

\* data.trivia_categories
TriviaCategories ==
    <<[id |-> 9, name |-> "General Knowledge"], [id |-> 10, name |-> "Books"]>>

----------------------------------------------------------------------------
(* The page *)

\* innerText of #result
Text(kind, n, str) == [kind |-> kind, n |-> n, str |-> str]
NoText == Text("", 0, <<>>)

\* innerText of #progress: "Question {cur}/{total}", or empty
Progress(cur, total) == [cur |-> cur, total |-> total]
NoProgress == Progress(0, 0)

\* A child of #answers.  correctAnswer and answers are what the click listener
\* closes over; fromCorrect records that the button was built from
\* question.correct_answer (history, never read by the program).
AnswerButton(answer, fromCorrect, correctAnswer, answers) ==
    [className |-> "answer-btn", text |-> ParseHTML(decodeHTML(answer)),
     disabled |-> FALSE, classList |-> {}, correctAnswer |-> correctAnswer,
     answers |-> answers, fromCorrect |-> fromCorrect]

RestartButton ==
    [className |-> "", text |-> Lit("Restart Quiz"), disabled |-> FALSE,
     classList |-> {}, correctAnswer |-> <<>>, answers |-> <<>>,
     fromCorrect |-> FALSE]

\* All the state as one record, so that a callback is a function of it.
State ==
    [currentQuestions |-> currentQuestions, score |-> score,
     questionIndex |-> questionIndex, highScore |-> highScore,
     questionStartTime |-> questionStartTime, localStorage |-> localStorage,
     questionContainer |-> questionContainer, answersContainer |-> answersContainer,
     resultContainer |-> resultContainer, progressContainer |-> progressContainer,
     currentScoreDisplay |-> currentScoreDisplay, highScoreDisplay |-> highScoreDisplay,
     gameSetupDiv |-> gameSetupDiv, quizDiv |-> quizDiv,
     categorySelect |-> categorySelect, now |-> now, timers |-> timers,
     questionFetches |-> questionFetches, categoryFetches |-> categoryFetches,
     alert |-> alert, session |-> session, shown |-> shown, last |-> last,
     started |-> started,
     threw |-> FALSE]

Commit(s) ==
    /\ currentQuestions' = s.currentQuestions
    /\ score' = s.score
    /\ questionIndex' = s.questionIndex
    /\ highScore' = s.highScore
    /\ questionStartTime' = s.questionStartTime
    /\ localStorage' = s.localStorage
    /\ questionContainer' = s.questionContainer
    /\ answersContainer' = s.answersContainer
    /\ resultContainer' = s.resultContainer
    /\ progressContainer' = s.progressContainer
    /\ currentScoreDisplay' = s.currentScoreDisplay
    /\ highScoreDisplay' = s.highScoreDisplay
    /\ gameSetupDiv' = s.gameSetupDiv
    /\ quizDiv' = s.quizDiv
    /\ categorySelect' = s.categorySelect
    /\ now' = s.now
    /\ timers' = s.timers
    /\ questionFetches' = s.questionFetches
    /\ categoryFetches' = s.categoryFetches
    /\ alert' = s.alert
    /\ session' = s.session
    /\ shown' = s.shown
    /\ last' = s.last
    /\ started' = s.started

\* A callback starts: no alert yet, and the history of the last callback is
\* reset to what the page held before it ran.
Begin(s) ==
    [s EXCEPT !.alert = "",
              !.last = [finished |-> FALSE, submitted |-> FALSE,
                        storedBefore |-> s.localStorage, points |-> 0,
                        elapsed |-> 0, fromCorrect |-> FALSE,
                        response |-> FALSE]]

\* An exception leaves the callback where it is.
Throw(s) == [s EXCEPT !.threw = TRUE]

----------------------------------------------------------------------------
(* The functions of script.js *)

Swap(array, i, j) == [array EXCEPT ![i] = array[j], ![j] = array[i]]

\* shuffleArray: for (i = length - 1; i > 0; i--) swap array[i] with array[j],
\* j = floor(random * (i + 1)).  Indices are 1-based here.  The set of arrays
\* the loop can leave.
RECURSIVE ShuffleFrom(_, _)
ShuffleFrom(array, i) ==
    IF i <= 1 THEN {array}
    ELSE UNION { ShuffleFrom(Swap(array, i, j), i - 1) : j \in 1..i }

shuffleArray(array) == ShuffleFrom(array, Len(array))

updateHighScoreDisplay(s) == [s EXCEPT !.highScoreDisplay = s.highScore]

updateHighScoreAlways(s) ==
    updateHighScoreDisplay(
        [s EXCEPT !.highScore = s.score,
                  !.localStorage = Item(NumberToString(s.score))])

updateHighScoreOnTie(s) ==
    IF s.score >= s.highScore
    THEN updateHighScoreDisplay(
            [s EXCEPT !.highScore = s.score,
                      !.localStorage = Item(NumberToString(s.score))])
    ELSE s

updateHighScore(s) ==
    IF s.score > s.highScore
    THEN updateHighScoreDisplay(
            [s EXCEPT !.highScore = s.score,
                      !.localStorage = Item(NumberToString(s.score))])
    ELSE s

updateProgress(s) ==
    [s EXCEPT !.progressContainer =
        Progress(s.questionIndex + 1, Len(s.currentQuestions.items))]

updateCurrentScore(s) == [s EXCEPT !.currentScoreDisplay = s.score]

disableNothing(s) == s

disableButtons(s) ==
    [s EXCEPT !.answersContainer =
        [i \in DOMAIN @ |->
            IF @[i].className = "answer-btn"
            THEN [@[i] EXCEPT !.disabled = TRUE] ELSE @[i]]]

showResultsAppending(s) ==
    updateHighScoreDisplay(
        [s EXCEPT !.questionContainer = Lit("Quiz Finished!"),
                  !.answersContainer = @ \o <<RestartButton>>,
                  !.resultContainer = Text("Your final score is ", s.score, <<>>),
                  !.progressContainer = NoProgress])

\* showResults; the restart listener is the action RestartClick.
showResults(s) ==
    updateHighScoreDisplay(
        [s EXCEPT !.questionContainer = Lit("Quiz Finished!"),
                  !.answersContainer = <<RestartButton>>,
                  !.resultContainer = Text("Your final score is ", s.score, <<>>),
                  !.progressContainer = NoProgress])

\* displayAnswers: the pages it can leave, one per outcome of the shuffle.
displayAnswers(s, question) ==
    LET answers == question.incorrect_answers \o <<question.correct_answer>>
        tagged == [i \in DOMAIN answers |->
                     [answer |-> answers[i], fromCorrect |-> i = Len(answers)]]
    IN  { [s EXCEPT !.answersContainer =
              [i \in DOMAIN sh |->
                  AnswerButton(sh[i].answer, sh[i].fromCorrect,
                               question.correct_answer,
                               [k \in DOMAIN sh |-> sh[k].answer])]]
          : sh \in shuffleArray(tagged) }

\* displayQuestion.  Reading currentQuestions.length throws when
\* currentQuestions is undefined.
displayQuestion(s) ==
    IF ~s.currentQuestions.defined THEN {Throw(s)}
    ELSE IF s.questionIndex < Len(s.currentQuestions.items)
    THEN LET currentQuestion == s.currentQuestions.items[s.questionIndex + 1]
             s1 == [s EXCEPT !.questionContainer =
                                 ParseHTML(decodeHTML(currentQuestion.question))]
         IN  { [updateProgress(s2) EXCEPT
                    !.questionStartTime = s.now,
                    !.shown = [at |-> s.now, question |-> currentQuestion,
                               submissions |-> 0, scheduled |-> 0],
                    !.session.presented = Append(@, s.questionIndex)]
               : s2 \in displayAnswers(s1, currentQuestion) }
    ELSE LET s1 == showResults(updateHighScore(s))
         IN  { [s1 EXCEPT !.session.finished = @ + 1, !.last.finished = TRUE] }

scoreUnclamped(ms) == baseScorePerQuestion - (ms \div 1000) * penaltyPerSecond

\* scoreForThisQuestion, from the milliseconds between questionStartTime and
\* the click: timeTaken = ms / 1000, Math.floor(timeTaken) = ms \div 1000.
scoreForThisQuestion(ms) ==
    Max(baseScorePerQuestion - (ms \div 1000) * penaltyPerSecond, 0)

\* setTimeout(advance, 3000)
setTimeout(s) ==
    [s EXCEPT !.timers = Append(@, s.now + FeedbackDelay),
              !.shown.scheduled = @ + 1]

\* selectAnswer, on a click of the b-th child of #answers.
selectAnswer(s, b) ==
    LET selectedButton == s.answersContainer[b]
        correctAnswer == selectedButton.correctAnswer
        answers == selectedButton.answers
        points == scoreForThisQuestion(s.now - s.questionStartTime)
        s1 == [disableButtons(s) EXCEPT
                  !.shown.submissions = @ + 1,
                  !.last.submitted = TRUE,
                  !.last.points = points,
                  !.last.elapsed = s.now - s.shown.at,
                  !.last.fromCorrect = selectedButton.fromCorrect,
                  !.session.earned =
                      IF selectedButton.fromCorrect THEN @ + points ELSE @]
        \* [...childNodes].find(button => button.innerHTML === decoded): the
        \* first match, 0 for undefined; assigned when some answer decodes to
        \* the decoded correct answer.
        found == { i \in DOMAIN s1.answersContainer :
                     SerializeHTML(s1.answersContainer[i].text)
                         = decodeHTML(correctAnswer) }
        correctButton ==
            IF (\E i \in DOMAIN answers :
                    decodeHTML(answers[i]) = decodeHTML(correctAnswer))
               /\ found # {}
            THEN Min(found) ELSE 0
    IN  IF decodeHTML(SerializeHTML(selectedButton.text)) = decodeHTML(correctAnswer)
        THEN setTimeout(updateCurrentScore(
                [s1 EXCEPT !.score = @ + points,
                           !.answersContainer[b].classList = @ \cup {"correct"},
                           !.resultContainer = Text("Correct! + N Points", points, <<>>)]))
        ELSE IF correctButton = 0
        THEN \* correctButton.classList throws a TypeError
             Throw([s1 EXCEPT !.answersContainer[b].classList = @ \cup {"incorrect"}])
        ELSE setTimeout(updateCurrentScore(
                [s1 EXCEPT !.answersContainer[b].classList = @ \cup {"incorrect"},
                           !.answersContainer[correctButton].classList = @ \cup {"correct"},
                           !.resultContainer =
                               Text("Wrong! The correct answer was: ", 0,
                                    decodeHTML(correctAnswer))]))

advanceByTwo(s) ==
    { IF r.threw THEN r ELSE [r EXCEPT !.resultContainer = NoText]
      : r \in displayQuestion([s EXCEPT !.questionIndex = @ + 2]) }

\* The setTimeout callback of selectAnswer.
advance(s) ==
    { IF r.threw THEN r ELSE [r EXCEPT !.resultContainer = NoText]
      : r \in displayQuestion([s EXCEPT !.questionIndex = @ + 1]) }

questionsLoadedIfQuizShown(s, results) ==
    IF s.quizDiv # "block" THEN {s}
    ELSE
    LET s1 == [s EXCEPT !.currentQuestions = results,
                        !.questionIndex = 0,
                        !.score = 0,
                        !.session = [presented |-> <<>>, finished |-> 0,
                                     earned |-> 0, loaded |-> results,
                                     carried |-> s.score > 0 /\ s.questionIndex > 0]]
    IN  { IF r.threw THEN [r EXCEPT !.alert = "Error:TypeError"] ELSE r
          : r \in displayQuestion(s1) }

questionsLoadedKeepingScore(s, results) ==
    LET s1 == [s EXCEPT !.currentQuestions = results,
                        !.questionIndex = 0,
                        !.session = [presented |-> <<>>, finished |-> 0,
                                     earned |-> 0, loaded |-> results,
                                     carried |-> s.score > 0 /\ s.questionIndex > 0]]
    IN  { IF r.threw THEN [r EXCEPT !.alert = "Error:TypeError"] ELSE r
          : r \in displayQuestion(s1) }

\* The second .then of fetchQuestions, on data.results, with its .catch.
questionsLoaded(s, results) ==
    LET s1 == [s EXCEPT !.currentQuestions = results,
                        !.questionIndex = 0,
                        !.score = 0,
                        !.session = [presented |-> <<>>, finished |-> 0,
                                     earned |-> 0, loaded |-> results,
                                     carried |-> s.score > 0 /\ s.questionIndex > 0]]
    IN  { IF r.threw THEN [r EXCEPT !.alert = "Error:TypeError"] ELSE r
          : r \in displayQuestion(s1) }

\* The .catch of fetchQuestions when the request or response.json() rejects.
questionsFailed(s, error) == [s EXCEPT !.alert = "Error:" \o error]

\* startGame; the URL fetchQuestions builds decides nothing the page keeps.
startGame(s) ==
    [s EXCEPT !.questionFetches = @ + 1,
              !.started = @ + 1,
              !.gameSetupDiv = "none",
              !.quizDiv = "block"]

\* The click listener of the restart button, with the fetchCategories call.
restart(s) ==
    [s EXCEPT !.quizDiv = "none",
              !.gameSetupDiv = "block",
              !.categoryFetches = @ + 1]

Option(category) == [value |-> category.id, textContent |-> category.name]

\* The second .then of fetchCategories.
categoriesLoaded(s, trivia_categories) ==
    [s EXCEPT !.categorySelect =
        @ \o [i \in DOMAIN trivia_categories |-> Option(trivia_categories[i])]]

----------------------------------------------------------------------------
(* The state machine *)

\* Scores a previous visit may have left in localStorage.
StoredScores == {980}

NoSession ==
    [presented |-> <<>>, finished |-> 0, earned |-> 0, loaded |-> Array(<<>>),
     carried |-> FALSE]

Init ==
    /\ currentQuestions = Array(<<>>)
    /\ score = 0
    /\ questionIndex = 0
    /\ localStorage \in {NoItem} \cup { Item(NumberToString(h)) : h \in StoredScores }
    /\ highScore = ParseIntOrZero(localStorage)
    /\ questionStartTime = 0
    /\ questionContainer = <<>>
    /\ answersContainer = <<>>
    /\ resultContainer = NoText
    /\ progressContainer = NoProgress
    /\ currentScoreDisplay = 0
    /\ highScoreDisplay = highScore
    /\ gameSetupDiv = "block"
    /\ quizDiv = "none"
    /\ categorySelect = <<>>
    /\ now = 0
    /\ timers = <<>>
    /\ questionFetches = 0
    /\ categoryFetches = 1
    /\ alert = ""
    /\ session = NoSession
    /\ shown = [at |-> 0, question |-> PlainQuestion, submissions |-> 0,
                scheduled |-> 0]
    /\ last = [finished |-> FALSE, submitted |-> FALSE,
               storedBefore |-> localStorage,
               points |-> 0, elapsed |-> 0, fromCorrect |-> FALSE,
               response |-> FALSE]
    /\ started = 0

\* A click on the start button, which is inside #game-setup.
StartClick ==
    /\ gameSetupDiv = "block"
    /\ questionFetches < MaxFetches
    /\ started < MaxStarts
    /\ Commit(startGame(Begin(State)))

\* The question request resolves with JSON whose results field is a list, or
\* is missing.
QuestionsResponse ==
    /\ questionFetches > 0
    /\ \E results \in { Array(l) : l \in QuestionLists } \cup {Undefined} :
         \E r \in questionsLoaded(
                     [Begin(State) EXCEPT !.questionFetches = @ - 1],
                     results) :
            Commit([r EXCEPT !.last.response = TRUE])

\* The question request is rejected, or its body is not JSON.
QuestionsFailure ==
    /\ questionFetches > 0
    /\ \E error \in {"TypeError: Failed to fetch", "SyntaxError"} :
         Commit(questionsFailed(
                   [Begin(State) EXCEPT !.questionFetches = @ - 1],
                   error))

\* A click on an enabled answer button, which is inside #quiz.
AnswerClick ==
    /\ quizDiv = "block"
    /\ Len(timers) < MaxTimers
    /\ \E b \in DOMAIN answersContainer :
         /\ answersContainer[b].className = "answer-btn"
         /\ ~answersContainer[b].disabled
         /\ Commit(selectAnswer(Begin(State), b))

\* The oldest feedback timer is due and its callback runs.
TimerFires ==
    /\ timers # <<>>
    /\ now >= Head(timers)
    /\ \E r \in advance([Begin(State) EXCEPT !.timers = Tail(@)]) :
         Commit(r)

\* A click on the restart button, which is inside #quiz.
RestartClick ==
    /\ quizDiv = "block"
    /\ categoryFetches < MaxFetches
    /\ \E b \in DOMAIN answersContainer :
         /\ answersContainer[b] = RestartButton
         /\ Commit(restart(Begin(State)))

\* The category request resolves.
CategoriesResponse ==
    /\ categoryFetches > 0
    /\ Len(categorySelect) + Len(TriviaCategories) <= MaxOptions
    /\ Commit(categoriesLoaded(
                 [Begin(State) EXCEPT !.categoryFetches = @ - 1],
                 TriviaCategories))

\* The category request is rejected: nothing handles it.
CategoriesFailure ==
    /\ categoryFetches > 0
    /\ Commit([Begin(State) EXCEPT !.categoryFetches = @ - 1])

\* Time passes.
Tick ==
    /\ \E t \in Instants : t > now /\ now' = t
    /\ UNCHANGED <<currentQuestions, score, questionIndex, highScore,
                   questionStartTime, localStorage, questionContainer,
                   answersContainer, resultContainer, progressContainer,
                   currentScoreDisplay, highScoreDisplay, gameSetupDiv, quizDiv,
                   categorySelect, timers, questionFetches, categoryFetches,
                   alert, session, shown, last, started>>

Next ==
    \/ StartClick
    \/ QuestionsResponse
    \/ QuestionsFailure
    \/ AnswerClick
    \/ TimerFires
    \/ RestartClick
    \/ CategoriesResponse
    \/ CategoriesFailure
    \/ Tick

Spec == Init /\ [][Next]_vars

----------------------------------------------------------------------------
(* Properties *)

AnswerButtons ==
    { i \in DOMAIN answersContainer : answersContainer[i].className = "answer-btn" }

\* A question is on screen and no answer has been given to it yet.
AwaitingAnswer ==
    /\ AnswerButtons # {}
    /\ \A i \in AnswerButtons : ~answersContainer[i].disabled

Count(seq, x) == Cardinality({ i \in DOMAIN seq : seq[i] = x })

\* C1: the points computed for a submission are max(1000 - 10*floor(t), 0),
\* t the seconds between the rendering of the question on screen and the
\* submission: an integer in 0..1000, 0 from t = 100 on.
C1_PointsFormula ==
    last.submitted =>
        /\ last.points =
              IF last.elapsed >= 100000 THEN 0
              ELSE 1000 - 10 * (last.elapsed \div 1000)
        /\ last.points \in 0..1000

\* An answer given 150 s after its question was rendered.
C1_LateAnswer ==
    last.submitted /\ last.elapsed = 150000 /\ last.points = 0

\* C2: when the session finishes, the score is the sum of the points awarded
\* for the questions of this session whose correct choice was the one clicked.
C2_FinalScoreIsSumOfCorrect ==
    last.finished => score = session.earned

\* C3: a finished session with final score f and stored high score h leaves
\* max(h, f) stored: f written when f > h, nothing written when f <= h.
C3_HighScoreIsMax ==
    last.finished =>
        LET h == ParseIntOrZero(last.storedBefore)
        IN  /\ ParseIntOrZero(localStorage) = IF score > h THEN score ELSE h
            /\ score > h => localStorage = Item(NumberToString(score))
            /\ score <= h => localStorage = last.storedBefore

\* A session finishes with a positive score equal to the stored high score.
C3_Tie ==
    /\ last.finished
    /\ score > 0
    /\ score = ParseIntOrZero(last.storedBefore)

\* C4: a session reaches Finished once, and then currentIndex is the length
\* of its question list.
C4_FinishedOnceAtK ==
    /\ session.finished <= 1
    /\ last.finished => questionIndex = Len(currentQuestions.items)

C6_RenderedChoices ==
    AnswerButtons # {} =>
        LET q == shown.question
            decoded == [i \in 1..(Len(q.incorrect_answers) + 1) |->
                          decodeHTML((q.incorrect_answers \o <<q.correct_answer>>)[i])]
            rendered == [i \in DOMAIN answersContainer |-> answersContainer[i].text]
        IN  /\ Len(rendered) = Len(decoded)
            /\ \A i \in DOMAIN decoded :
                  Count(rendered, decoded[i]) = Count(decoded, decoded[i])
            /\ Cardinality({ i \in DOMAIN rendered :
                               rendered[i] = decodeHTML(q.correct_answer) }) = 1

\* C7: once an answer is submitted every choice is disabled until the next
\* question is rendered, so a rendered question takes at most one submission
\* and schedules at most one timer.
C7_OneSubmission ==
    /\ shown.submissions <= 1
    /\ shown.scheduled <= shown.submissions
    /\ (shown.submissions = 1 =>
          \A i \in AnswerButtons : answersContainer[i].disabled)

\* A question has been answered and its feedback timer is pending.
C7_Answered ==
    /\ AnswerButtons # {}
    /\ shown.submissions = 1
    /\ shown.scheduled = 1
    /\ timers # <<>>

\* C8: while the first question of a session is on screen unanswered, the list
\* is the one the response carried, questionIndex = 0 and score = 0.
C8_SessionReset ==
    (AwaitingAnswer /\ Len(session.presented) = 1) =>
        /\ currentQuestions = session.loaded
        /\ questionIndex = 0
        /\ score = 0
        /\ shown.question = session.loaded.items[1]

\* The first question of a session that follows one with points and progress.
C8_SecondSessionStarts ==
    /\ AwaitingAnswer
    /\ Len(session.presented) = 1
    /\ session.carried

\* C9: a callback that raises the fetch alert leaves the question list, the
\* index, the scores and the question and answer area as they were.
C9_FailureKeepsState ==
    [][alert' # "" =>
          UNCHANGED <<currentQuestions, questionIndex, score, highScore,
                      localStorage, questionContainer, answersContainer>>]_vars

\* C10: the category selector holds nothing, or one entry per category of the
\* API's list, in its order.
C10_SelectorIsTheList ==
    \/ categorySelect = <<>>
    \/ categorySelect =
          [i \in DOMAIN TriviaCategories |-> Option(TriviaCategories[i])]

\* C11: at most one question request and at most one category request are in
\* flight.
C11_OneRequestInFlight ==
    /\ questionFetches <= 1
    /\ categoryFetches <= 1

\* The restart control is on screen and can be clicked.
RestartOnScreen ==
    /\ quizDiv = "block"
    /\ \E b \in DOMAIN answersContainer : answersContainer[b] = RestartButton

\* C12: after the callback that finishes a session, the page shows the
\* finished message, the final score on the result line, and the restart
\* control as the only child of the answer area.
C12_ResultsView ==
    last.finished =>
        /\ questionContainer = Lit("Quiz Finished!")
        /\ resultContainer = Text("Your final score is ", score, <<>>)
        /\ answersContainer = <<RestartButton>>

\* C13: the stored high score never decreases, a missing entry counts as 0,
\* and the entry is written only by a callback that finishes a session whose
\* score exceeds it, with that score; that callback is the feedback timer's,
\* never a response's or a click's.
C13_HighScoreMonotone ==
    [][/\ ParseIntOrZero(localStorage') >= ParseIntOrZero(localStorage)
       /\ highScore' = ParseIntOrZero(localStorage')
       /\ localStorage' # localStorage =>
             /\ last'.finished
             /\ ~last'.response
             /\ ~last'.submitted
             /\ Len(timers') = Len(timers) - 1
             /\ score' > ParseIntOrZero(localStorage)
             /\ localStorage' = Item(NumberToString(score'))]_vars

\* A session has just finished and written the first entry.
C13_FirstHighScore ==
    /\ last.finished
    /\ ~last.storedBefore.present
    /\ localStorage.present
    /\ highScore > 0

\* C14: an incorrect submission marks the clicked choice incorrect and the
\* choice built from the correct answer correct, names the decoded correct
\* answer in the feedback, and schedules the feedback timer.
C14_WrongAnswerFeedback ==
    (last.submitted /\ ~last.fromCorrect) =>
        /\ shown.scheduled = 1
        /\ resultContainer =
              Text("Wrong! The correct answer was: ", 0,
                   decodeHTML(shown.question.correct_answer))
        /\ \A i \in AnswerButtons :
              /\ answersContainer[i].fromCorrect =>
                    "correct" \in answersContainer[i].classList
              /\ "incorrect" \in answersContainer[i].classList =>
                    ~answersContainer[i].fromCorrect

\* C15: the question index stays between 0 and the length of the question
\* list.
C15_IndexInRange ==
    currentQuestions.defined =>
        /\ questionIndex >= 0
        /\ questionIndex <= Len(currentQuestions.items)

\* C16: a question response, in whatever view and for whatever session it
\* arrives, overwrites the question list and resets the index and the score.
C16_ResponseAlwaysApplied ==
    last.response =>
        /\ currentQuestions = session.loaded
        /\ questionIndex = 0
        /\ score = 0

\* A response arrives while the setup view is shown, that is, after a restart
\* that followed the start that issued it, and resets a score and an index
\* that were not 0.
C16_LateResponseInSetup ==
    /\ last.response
    /\ gameSetupDiv = "block"
    /\ quizDiv = "none"
    /\ session.carried
    /\ currentQuestions.defined
    /\ Len(currentQuestions.items) > 0

\* C17: a response with an empty list finishes the session at once: no
\* question presented, no answer button, score 0, the stored high score as it
\* was, and the results view with the restart control in the quiz panel.
C17_EmptyListFinishes ==
    (last.response /\ session.loaded = Array(<<>>)) =>
        /\ last.finished
        /\ session.presented = <<>>
        /\ AnswerButtons = {}
        /\ score = 0
        /\ localStorage = last.storedBefore
        /\ questionContainer = Lit("Quiz Finished!")
        /\ resultContainer = Text("Your final score is ", 0, <<>>)
        /\ answersContainer = <<RestartButton>>

\* An empty list has just arrived in a visit that had stored a high score.
C17_EmptyListArrived ==
    /\ last.response
    /\ session.loaded = Array(<<>>)
    /\ last.finished
    /\ quizDiv = "block"
    /\ localStorage.present

\* C18: the restart control can be clicked only in the finished state: no
\* question request is pending and the finished message is on the page.
C18_RestartOnlyWhenFinished ==
    RestartOnScreen =>
        /\ questionFetches = 0
        /\ questionContainer = Lit("Quiz Finished!")
        /\ AnswerButtons = {}

\* C19: while a question is on the page the displayed running score is the
\* running score.
C19_DisplayedScoreIsScore ==
    (quizDiv = "block" /\ AnswerButtons # {}) => currentScoreDisplay = score

====
